---- MODULE Spec2Model ----
(***************************************************************************)
(* Managed-network configuration of a machine-learning workspace, as       *)
(* driven by sdk/python/resources/workspace/workspace-managed-network.     *)
(* The client issues long-running operations (begin_create, begin_update,  *)
(* begin_provision_network, workspace_outbound_rules.begin_create, get,    *)
(* begin_delete) and waits on each with .result(); the management service  *)
(* behaves as the notebook's text documents it.                            *)
(*                                                                         *)
(* Two specifications share the state:                                     *)
(*   Spec          any caller of the six operations, inputs from small sets*)
(*   NotebookSpec  the notebook's cells, run top to bottom                 *)
(***************************************************************************)
EXTENDS Naturals, Integers, Sequences, FiniteSets, TLC

VARIABLES
    remote,                 \* the workspace as the management service holds it
    config,                 \* the client's configuration model (desired state)
    ws_mvnet,               \* the notebook's workspace object (last one fetched)
    mvnet_workspace_name,   \* the notebook's workspace name (0: not yet set)
    pending,                \* requests sent, not yet handled by the service
    replies,                \* responses produced, not yet taken by .result()
    call,                   \* the invocation under way, or the one just refused
    lastError,              \* what the latest invocation reported ({}: nothing)
    pc                      \* the notebook's position: cell and phase

vars == <<remote, config, ws_mvnet, mvnet_workspace_name, pending, replies,
          call, lastError, pc>>

----------------------------------------------------------------------------
(* Bounds *)

\* number of distinct minutes datetime.now() may fall in
NumStamps == 2
\* longest outbound_rules list handed to ManagedNetwork(...) at creation
MaxInitRules == 2

----------------------------------------------------------------------------
(* Values *)

Disabled == "Disabled"
AIO == "AllowInternetOutbound"
AOAO == "AllowOnlyApprovedOutbound"
IsolationMode == {Disabled, AIO, AOAO}

RuleTypes == {"ServiceTag", "FQDN", "PrivateEndpoint"}
RuleNames == {"servicetagrule", "fqdnrule", "privateendpointrule"}
Stamps == 1..NumStamps

\* The destination constructors take a name and type-specific attributes
\* (service_tag/protocol/port_ranges, destination, service_resource_id/
\* subresource_target); none takes a status or a category.
ServiceTagDestinationWithStatus(n) ==
    [name |-> n, type |-> "ServiceTag", status |-> "Active"]
ServiceTagDestination(n) == [name |-> n, type |-> "ServiceTag"]
FqdnDestination(n) == [name |-> n, type |-> "FQDN"]
PrivateEndpointDestination(n) == [name |-> n, type |-> "PrivateEndpoint"]

Destinations ==
    {ServiceTagDestination(n) : n \in RuleNames}
        \cup {FqdnDestination(n) : n \in RuleNames}
        \cup {PrivateEndpointDestination(n) : n \in RuleNames}

NoRule == [name |-> "", type |-> ""]

\* outbound_rules lists a caller may pass at creation: two names (distinct or
\* repeated) and two types (one supported under every mode, one not)
InitDestinations ==
    {d \in Destinations :
        /\ d.name \in {"servicetagrule", "privateendpointrule"}
        /\ d.type \in {"ServiceTag", "PrivateEndpoint"}}
InitRuleLists == UNION {[1..k -> InitDestinations] : k \in 0..MaxInitRules}

ValidationErrors == {"DuplicateRuleName", "InvalidTransition", "UnsupportedRuleForMode"}
RemoteErrors == {"NetworkError", "AuthorizationFailure"}

NoWs == [exists |-> FALSE, name |-> 0, mode |-> Disabled, rules |-> {},
         network |-> "Inactive", compute |-> FALSE]

\* The workspace object as the notebook uses it: the fields it reads or
\* assigns (name, managed_network.isolation_mode); the rest is only printed.
WsView(rem) == [exists |-> rem.exists, name |-> rem.name, mode |-> rem.mode]

NoConfig == [state |-> "none", mode |-> Disabled, rules |-> {}]

\* an operation and its arguments
Op(k, m, rs, r) == [kind |-> k, mode |-> m, rules |-> rs, rule |-> r]
NoOp == Op("none", Disabled, <<>>, NoRule)

CreateOp(m, rs) == Op("create", m, rs, NoRule)
GetOp == Op("get", Disabled, <<>>, NoRule)
UpdateOp(ws) == Op("update", ws.mode, <<>>, NoRule)
ProvisionOp == Op("provision", Disabled, <<>>, NoRule)
AddRuleOp(r) == Op("addrule", Disabled, <<>>, r)
DeleteOp == Op("delete", Disabled, <<>>, NoRule)

NoCall == [op |-> NoOp, nreq |-> 0]

----------------------------------------------------------------------------
(* Validation rules *)

\* "Once the isolation mode is changed to AOAO, it can't not be reverted back
\* to AIO or Disabled."
AllowedTargetsAny(m) == IsolationMode
AllowedTargets(m) == IF m = AOAO THEN {AOAO} ELSE IsolationMode

\* "PrivateEndpointOutboundRule is the only supported type of outbound rule
\* for AIO isolation mode"
SupportedUnderAIO_All == RuleTypes
SupportedUnderAIO_None == {}
SupportedUnderAIO == {"PrivateEndpoint"}

\* "The possible types are ServiceTag, FQDN, or PrivateEndpoint" (added in
\* sections 3.1-3.3 to a workspace in AOAO mode)
SupportedUnderAOAO == RuleTypes

\* every rule type is taken (and ignored) while the managed network is disabled
SupportedUnderDisabled == RuleTypes

SupportedTypes(m) ==
    CASE m = AIO -> SupportedUnderAIO
      [] m = AOAO -> SupportedUnderAOAO
      [] OTHER -> SupportedUnderDisabled

NameInUseNever(rules, n) == FALSE
NameInUse(rules, n) == \E r \in rules : r.name = n

HasDuplicateNames(s) == \E i, j \in 1..Len(s) : i # j /\ s[i].name = s[j].name

\* every constraint the operation breaks on configuration cfg ({}: valid)
validate(cfg, op) ==
    (IF op.kind = "create" /\ HasDuplicateNames(op.rules)
        THEN {"DuplicateRuleName"} ELSE {})
    \cup
    (IF op.kind = "create"
         /\ \E i \in 1..Len(op.rules) : op.rules[i].type \notin SupportedTypes(op.mode)
        THEN {"UnsupportedRuleForMode"} ELSE {})
    \cup
    (IF op.kind = "update" /\ op.mode \notin AllowedTargets(cfg.mode)
        THEN {"InvalidTransition"} ELSE {})
    \cup
    (IF op.kind = "addrule" /\ NameInUse(cfg.rules, op.rule.name)
        THEN {"DuplicateRuleName"} ELSE {})
    \cup
    (IF op.kind = "addrule" /\ op.rule.type \notin SupportedTypes(cfg.mode)
        THEN {"UnsupportedRuleForMode"} ELSE {})

\* what the pre-flight check lets out to the service
OutgoingUnchecked(errs, req) == {req}
Outgoing(errs, req) == IF errs = {} THEN {req} ELSE {}

----------------------------------------------------------------------------
(* The management service *)

Materialize(d, cat, st) ==
    [name |-> d.name, type |-> d.type, category |-> cat, status |-> st]

Descriptor(r) == [name |-> r.name, type |-> r.type]

\* "Some additional rules are added to the network settings as Required
\* outbound rules ... PEs are necessitated to certain workspace-associated
\* resources and certain service tags are required"
RequiredRules ==
    {[name |-> "required_pe", type |-> "PrivateEndpoint"],
     [name |-> "required_servicetag", type |-> "ServiceTag"]}

\* "After the managed network was Active, the rules we added above were
\* applied ... we should see all added user defined rules in Active"; before
\* that, "managed network creation is deferred"
StatusForDeferred(network) == "Inactive"
StatusFor(network) == network

\* statuses the service may give a Required rule it adds
RequiredStatuses(network) ==
    IF network = "Inactive" THEN {"Inactive"} ELSE {"Inactive", "Active"}

\* the service's configuration, in the shape validate reads
ConfigOf(rem) ==
    [state |-> IF rem.exists THEN "live" ELSE "none",
     mode |-> rem.mode,
     rules |-> {Descriptor(r) : r \in rem.rules}]

RemoteCreate(q) ==
    [exists |-> TRUE, name |-> q.name, mode |-> q.op.mode,
     rules |-> {Materialize(q.op.rules[i], "UserDefined", "Inactive") :
                    i \in 1..Len(q.op.rules)}
               \cup (IF q.op.mode = AOAO
                        THEN {Materialize(d, "Required", "Inactive") : d \in RequiredRules}
                        ELSE {}),
     network |-> "Inactive", compute |-> FALSE]

RemoteUpdate(rem, q, st) ==
    [rem EXCEPT !.mode = q.op.mode,
                !.rules = @ \cup (IF q.op.mode = AOAO /\ rem.mode # AOAO
                                     THEN {Materialize(d, "Required", st) : d \in RequiredRules}
                                     ELSE {})]

\* "after provisioning the network, the status of the network and the
\* outbound rules is Active"
Provisioned(rem) ==
    [rem EXCEPT !.network = "Active",
                !.rules = {[r EXCEPT !.status = "Active"] : r \in @}]

RemoteAddRule(rem, q) ==
    [rem EXCEPT !.rules = @ \cup {Materialize(q.op.rule, "UserDefined",
                                              StatusFor(rem.network))}]

RemoteApply(rem, q, st) ==
    CASE q.op.kind = "create" -> RemoteCreate(q)
      [] q.op.kind = "update" -> RemoteUpdate(rem, q, st)
      [] q.op.kind = "provision" -> Provisioned(rem)
      [] q.op.kind = "addrule" -> RemoteAddRule(rem, q)
      [] q.op.kind = "delete" -> NoWs
      [] OTHER -> rem

\* whether the service can serve the request at all
RemoteConflicts(rem, q) ==
    IF q.op.kind = "create" THEN rem.exists ELSE ~rem.exists \/ rem.name # q.name

Reply(q, errs, rem) == [op |-> q.op, errs |-> errs, ws |-> WsView(rem)]

\* The service handles one request: it fails with an error of its own, turns
\* the request down, or applies it.
RemoteHandle ==
    \E q \in pending :
        /\ pending' = pending \ {q}
        /\ \/ \E e \in RemoteErrors :
                /\ replies' = replies \cup {Reply(q, {e}, remote)}
                /\ UNCHANGED remote
           \/ /\ RemoteConflicts(remote, q) \/ validate(ConfigOf(remote), q.op) # {}
              /\ replies' = replies \cup
                    {Reply(q, IF RemoteConflicts(remote, q) THEN {"Conflict"}
                              ELSE validate(ConfigOf(remote), q.op), remote)}
              /\ UNCHANGED remote
           \/ /\ ~RemoteConflicts(remote, q)
              /\ validate(ConfigOf(remote), q.op) = {}
              /\ \E st \in RequiredStatuses(remote.network) :
                    /\ remote' = RemoteApply(remote, q, st)
                    /\ replies' = replies \cup {Reply(q, {}, remote')}
        /\ UNCHANGED <<config, ws_mvnet, mvnet_workspace_name, call, lastError>>

\* "Instead of provisioning the network explictly, we could also create a
\* compute in the workspace, to trigger the managed network creation"
ComputeCreated ==
    /\ remote.exists
    /\ remote.network = "Inactive"
    /\ remote' = [Provisioned(remote) EXCEPT !.compute = TRUE]
    /\ UNCHANGED <<config, ws_mvnet, mvnet_workspace_name, pending, replies,
                   call, lastError, pc>>

----------------------------------------------------------------------------
(* The client *)

\* ws_mvnet.managed_network.isolation_mode = <mode>
SetIsolationMode(ws, m) == [ws EXCEPT !.mode = m]

\* begin_<operation>(...): pre-flight check, then one request
Begin(op, name) ==
    LET errs == validate(config, op)
        req == [name |-> name, op |-> op]
    IN  /\ call' = [op |-> op, nreq |-> Cardinality(Outgoing(errs, req))]
        /\ lastError' = errs
        /\ pending' = pending \cup Outgoing(errs, req)
        /\ mvnet_workspace_name' = name
        /\ UNCHANGED <<remote, config, ws_mvnet, replies>>

\* what the client keeps from a successful response
ConfigAfter(cfg, rep) ==
    CASE rep.op.kind = "create" ->
            [state |-> "live", mode |-> rep.op.mode,
             rules |-> {rep.op.rules[i] : i \in 1..Len(rep.op.rules)}]
      [] rep.op.kind = "update" -> [cfg EXCEPT !.mode = rep.op.mode]
      [] rep.op.kind = "addrule" -> [cfg EXCEPT !.rules = @ \cup {rep.op.rule}]
      [] rep.op.kind = "delete" -> [cfg EXCEPT !.state = "deleted"]
      [] OTHER -> cfg

\* ws_mvnet = ...begin_create(...).result()  and  ws_mvnet = ...get(...)
WsAfter(ws, rep) ==
    IF rep.op.kind \in {"create", "get"} THEN rep.ws ELSE ws

\* a failed remote call: the error goes to the caller as it came
OnErrorRetry(c, rep) ==
    IF c.nreq < 3
        THEN [call |-> [c EXCEPT !.nreq = @ + 1], lastError |-> {},
              pending |-> {[name |-> rep.ws.name, op |-> rep.op]}]
        ELSE [call |-> NoCall, lastError |-> rep.errs, pending |-> {}]
OnError(c, rep) ==
    [call |-> NoCall, lastError |-> rep.errs, pending |-> {}]

\* .result(): take the response of the operation waited on
Result(rep) ==
    /\ rep \in replies
    /\ replies' = replies \ {rep}
    /\ IF rep.errs = {}
          THEN /\ config' = ConfigAfter(config, rep)
               /\ ws_mvnet' = WsAfter(ws_mvnet, rep)
               /\ lastError' = {}
               /\ call' = NoCall
               /\ UNCHANGED pending
          ELSE /\ call' = OnError(call, rep).call
               /\ lastError' = OnError(call, rep).lastError
               /\ pending' = pending \cup OnError(call, rep).pending
               /\ UNCHANGED <<config, ws_mvnet>>
    /\ UNCHANGED <<remote, mvnet_workspace_name>>

\* nothing of an earlier operation is still under way
Idle == pending = {} /\ replies = {}

----------------------------------------------------------------------------
(* Spec: any caller of the operations *)

CreateWorkspace ==
    /\ Idle
    /\ config.state = "none"
    /\ \E m \in IsolationMode, rs \in InitRuleLists, s \in Stamps :
            Begin(CreateOp(m, rs), s)
    /\ UNCHANGED pc

GetWorkspace ==
    /\ Idle
    /\ config.state = "live"
    /\ Begin(GetOp, mvnet_workspace_name)
    /\ UNCHANGED pc

AssignIsolationMode ==
    /\ Idle
    /\ config.state = "live"
    /\ ws_mvnet.exists
    /\ \E m \in IsolationMode : ws_mvnet' = SetIsolationMode(ws_mvnet, m)
    /\ UNCHANGED <<remote, config, mvnet_workspace_name, pending, replies,
                   call, lastError, pc>>

UpdateIsolationMode ==
    /\ Idle
    /\ config.state = "live"
    /\ ws_mvnet.exists
    /\ Begin(UpdateOp(ws_mvnet), mvnet_workspace_name)
    /\ UNCHANGED pc

ProvisionNetwork ==
    /\ Idle
    /\ config.state = "live"
    /\ Begin(ProvisionOp, mvnet_workspace_name)
    /\ UNCHANGED pc

AddOutboundRule ==
    /\ Idle
    /\ config.state = "live"
    /\ \E d \in Destinations : Begin(AddRuleOp(d), mvnet_workspace_name)
    /\ UNCHANGED pc

DeleteWorkspace ==
    /\ Idle
    /\ config.state = "live"
    /\ Begin(DeleteOp, mvnet_workspace_name)
    /\ UNCHANGED pc

AwaitResult ==
    /\ \E rep \in replies : Result(rep)
    /\ UNCHANGED pc

Service ==
    /\ RemoteHandle
    /\ UNCHANGED pc

----------------------------------------------------------------------------
(* NotebookSpec: the cells, top to bottom *)

CellsRulesFirst ==
    <<"create", "servicetagrule", "get", "setmode", "update", "provision",
      "fqdnrule", "privateendpointrule", "get2", "delete">>
Cells == <<"create", "get", "setmode", "update", "provision",
           "servicetagrule", "fqdnrule", "privateendpointrule", "get2", "delete">>

Done == Len(Cells) + 1

\* the remote call of a cell
CellOp(c, ws) ==
    CASE c = "create" -> CreateOp(AIO, <<>>)
      [] c = "get" -> GetOp
      [] c = "update" -> UpdateOp(ws)
      [] c = "provision" -> ProvisionOp
      [] c = "servicetagrule" -> AddRuleOp(ServiceTagDestination("servicetagrule"))
      [] c = "fqdnrule" -> AddRuleOp(FqdnDestination("fqdnrule"))
      [] c = "privateendpointrule" ->
            AddRuleOp(PrivateEndpointDestination("privateendpointrule"))
      [] c = "get2" -> GetOp
      [] c = "delete" -> DeleteOp
      [] OTHER -> NoOp

\* begin_...(...).result(): the cell waits for its own operation
AfterBeginNoWait(p) == [i |-> p.i + 1, phase |-> "begin"]
AfterBegin(p) == [p EXCEPT !.phase = "await"]

NbBegin ==
    /\ pc.phase = "begin"
    /\ pc.i < Done
    /\ Cells[pc.i] # "setmode"
    /\ LET op == CellOp(Cells[pc.i], ws_mvnet)
       IN  /\ IF op.kind = "create"
                 THEN \E s \in Stamps : Begin(op, s)
                 ELSE Begin(op, mvnet_workspace_name)
           /\ pc' = IF validate(config, op) = {}
                       THEN AfterBegin(pc)
                       ELSE [pc EXCEPT !.phase = "failed"]

NbSetMode ==
    /\ pc.phase = "begin"
    /\ pc.i < Done
    /\ Cells[pc.i] = "setmode"
    /\ ws_mvnet' = SetIsolationMode(ws_mvnet, AOAO)
    /\ pc' = [pc EXCEPT !.i = @ + 1]
    /\ UNCHANGED <<remote, config, mvnet_workspace_name, pending, replies,
                   call, lastError>>

NbResult ==
    /\ pc.phase = "await"
    /\ \E rep \in replies :
        /\ Result(rep)
        /\ pc' = IF rep.errs = {}
                    THEN [i |-> pc.i + 1, phase |-> "begin"]
                    ELSE [pc EXCEPT !.phase = "failed"]

----------------------------------------------------------------------------

Init ==
    /\ remote = NoWs
    /\ config = NoConfig
    /\ ws_mvnet = WsView(NoWs)
    /\ mvnet_workspace_name = 0
    /\ pending = {}
    /\ replies = {}
    /\ call = NoCall
    /\ lastError = {}
    /\ pc = [i |-> 1, phase |-> "begin"]

Next ==
    \/ CreateWorkspace
    \/ GetWorkspace
    \/ AssignIsolationMode
    \/ UpdateIsolationMode
    \/ ProvisionNetwork
    \/ AddOutboundRule
    \/ DeleteWorkspace
    \/ AwaitResult
    \/ Service
    \/ ComputeCreated

Spec == Init /\ [][Next]_vars

NotebookNext ==
    \/ NbBegin
    \/ NbSetMode
    \/ NbResult
    \/ Service

NotebookSpec == Init /\ [][NotebookNext]_vars

----------------------------------------------------------------------------
(* Properties *)

TypeOK ==
    /\ remote.mode \in IsolationMode
    /\ remote.network \in {"Inactive", "Active"}
    /\ \A r \in remote.rules :
            /\ r.category \in {"UserDefined", "Required"}
            /\ r.status \in {"Inactive", "Active"}
    /\ config.state \in {"none", "live", "deleted"}
    /\ mvnet_workspace_name \in {0} \cup Stamps
    /\ lastError \subseteq ValidationErrors \cup RemoteErrors \cup {"Conflict"}

\* an operation is invoked in this step
BeginStep == call' # call /\ call'.op.kind # "none"

\* .result() takes a response in this step
ResultStep == \E rep \in replies : rep \notin replies'

\* the service answers a request in this step
ServiceStep == \E rep \in replies' : rep \notin replies

\* a compute is created in this step
ComputeStep == remote'.compute /\ ~remote.compute

UniqueNames(rules) == \A a, b \in rules : a.name = b.name => a = b

UpdateCell == CHOOSE i \in 1..Len(Cells) : Cells[i] = "update"

\* C1: once the workspace's isolation mode is AllowOnlyApprovedOutbound it
\* stays so through every create / update / add-rule / provision step, and
\* every update invoked then with target AllowInternetOutbound or Disabled is
\* refused with InvalidTransition, no request being sent.
C1_OneDirectional ==
    [][ /\ (remote.exists /\ remote.mode = AOAO /\ remote'.exists)
            => remote'.mode = AOAO
        /\ (/\ BeginStep
            /\ call'.op.kind = "update"
            /\ remote.exists /\ remote.mode = AOAO
            /\ call'.op.mode # AOAO)
            => (lastError' = {"InvalidTransition"} /\ pending' = pending) ]_vars

C1_Witness ==
    /\ remote.exists /\ remote.mode = AOAO
    /\ call.op.kind = "update" /\ call.op.mode = AIO
    /\ lastError = {"InvalidTransition"}

\* C2: no two rules of a workspace ever share a name; creating a workspace
\* with a rule list that repeats a name, or adding a rule whose name is in
\* use (whatever the types), is refused with DuplicateRuleName.
C2_UniqueRuleNames ==
    [][ /\ UniqueNames(remote'.rules)
        /\ UniqueNames(config'.rules)
        /\ (/\ BeginStep
            /\ call'.op.kind = "addrule"
            /\ \E r \in remote.rules : r.name = call'.op.rule.name)
            => ("DuplicateRuleName" \in lastError' /\ pending' = pending)
        /\ (/\ BeginStep
            /\ call'.op.kind = "create"
            /\ Cardinality({call'.op.rules[i].name : i \in 1..Len(call'.op.rules)})
                    < Len(call'.op.rules))
            => ("DuplicateRuleName" \in lastError' /\ pending' = pending) ]_vars

C2_Witness ==
    /\ call.op.kind = "addrule"
    /\ "DuplicateRuleName" \in lastError
    /\ \E r \in remote.rules :
            r.name = call.op.rule.name /\ r.type # call.op.rule.type

\* a ServiceTag or FQDN rule offered under AllowInternetOutbound, at creation
\* or by add-rule, is refused with UnsupportedRuleForMode and not sent
RefusedUnderAIO ==
    /\ (/\ BeginStep
        /\ call'.op.kind = "addrule"
        /\ remote.exists /\ remote.mode = AIO
        /\ call'.op.rule.type # "PrivateEndpoint")
        => ("UnsupportedRuleForMode" \in lastError' /\ pending' = pending)
    /\ (/\ BeginStep
        /\ call'.op.kind = "create"
        /\ call'.op.mode = AIO
        /\ \E i \in 1..Len(call'.op.rules) : call'.op.rules[i].type # "PrivateEndpoint")
        => ("UnsupportedRuleForMode" \in lastError' /\ pending' = pending)

C4_PrivateEndpointAccepted ==
    [][ (/\ BeginStep
         /\ call'.op.kind = "addrule"
         /\ call'.op.rule.type = "PrivateEndpoint"
         /\ remote.exists
         /\ ~\E r \in remote.rules : r.name = call'.op.rule.name)
        => (/\ lastError' = {}
            /\ call'.nreq = 1
            /\ pending' = pending \cup {[name |-> remote.name, op |-> call'.op]}
            /\ pending' # pending) ]_vars

C4_Witness ==
    /\ remote.exists /\ remote.mode = Disabled
    /\ \E rep \in replies :
            /\ rep.op.kind = "addrule"
            /\ rep.op.rule.type = "PrivateEndpoint"
            /\ rep.errs = {}
            /\ \E r \in remote.rules : Descriptor(r) = rep.op.rule

\* C5: an invocation that fails validation reports its errors at once, sends
\* no request and leaves the client's configuration and the service's
\* workspace as they were; the service never gets to refuse on its behalf.
C5_ValidationBeforeRemote ==
    [][ /\ (BeginStep /\ lastError' \cap ValidationErrors # {})
            => (/\ call'.nreq = 0
                /\ pending' = pending
                /\ replies' = replies
                /\ remote' = remote
                /\ config' = config)
        /\ \A rep \in replies' : rep.errs \cap ValidationErrors = {} ]_vars

C5_Witness ==
    /\ remote.exists
    /\ lastError \cap ValidationErrors # {}
    /\ call.nreq = 0
    /\ pending = {} /\ replies = {}

\* C6: requests carry rule descriptors without status or category; no client
\* step (invoking an operation, assigning the isolation mode, taking a result)
\* changes the service's rules; a rule's status or category changes only in a
\* step of the service or a compute creation.
C6_StatusAssignedRemotely ==
    [][ /\ \A q \in pending' :
            /\ DOMAIN q.op.rule = {"name", "type"}
            /\ \A i \in 1..Len(q.op.rules) : DOMAIN q.op.rules[i] = {"name", "type"}
        /\ (BeginStep \/ ResultStep \/ ws_mvnet' # ws_mvnet)
            => remote'.rules = remote.rules
        /\ (remote'.rules # remote.rules) => (ServiceStep \/ ComputeStep) ]_vars

C6_Witness ==
    /\ \E r \in remote.rules : r.category = "Required" /\ r.status = "Active"
    /\ \E r \in remote.rules : r.category = "UserDefined" /\ r.status = "Active"
    /\ \E q \in pending : q.op.kind = "addrule" /\ q.op.rule.type = "ServiceTag"

\* C7: an invocation that passes validation sends exactly one request; when
\* the response is an error no further request is sent and the caller is
\* handed that error as it came.
C7_OneCallNoRetry ==
    [][ /\ call'.nreq <= 1
        /\ (BeginStep /\ lastError' \cap ValidationErrors = {})
            => (call'.nreq = 1 /\ Cardinality(pending') = Cardinality(pending) + 1)
        /\ ResultStep
            => (/\ call.nreq = 1
                /\ pending' = pending
                /\ call' = NoCall
                /\ \A rep \in replies \ replies' : lastError' = rep.errs) ]_vars

C7_Witness ==
    /\ lastError = {"NetworkError"}
    /\ call = NoCall
    /\ pending = {} /\ replies = {}
    /\ remote.exists

\* C8: in the notebook at most one operation is outstanding at any moment,
\* and it is the operation of the cell being run.
C8_OneOutstanding ==
    /\ Cardinality(pending) + Cardinality(replies) <= 1
    /\ (pending # {} \/ replies # {}) =>
            /\ pc.phase = "await"
            /\ pc.i < Done
            /\ \A q \in pending : q.op = call.op
            /\ \A rep \in replies : rep.op = call.op
            /\ call.op.kind = CellOp(Cells[pc.i], ws_mvnet).kind

C8_Witness ==
    /\ pc.i < Done
    /\ Cells[pc.i] = "provision"
    /\ \E q \in pending : q.op.kind = "provision"

\* C9: a new workspace's network is Inactive, and while it is Inactive every
\* outbound rule is Inactive whatever is added or updated; the network turns
\* Active only by a provisioning (or a compute creation), which leaves every
\* rule Active; afterwards it stays Active, Active rules stay Active and every
\* user-defined rule added is Active.
C9_MaterializedByProvisioning ==
    [][ /\ (~remote.exists /\ remote'.exists) => remote'.network = "Inactive"
        /\ (remote'.exists /\ remote'.network = "Inactive")
            => \A r \in remote'.rules : r.status = "Inactive"
        /\ (remote.exists /\ remote'.exists
                /\ remote.network = "Inactive" /\ remote'.network = "Active")
            => (/\ ComputeStep \/ \E rep \in replies' \ replies :
                                        rep.op.kind = "provision" /\ rep.errs = {}
                /\ \A r \in remote'.rules : r.status = "Active")
        /\ (\E rep \in replies' \ replies : rep.op.kind = "provision" /\ rep.errs = {})
            => (/\ remote'.network = "Active"
                /\ \A r \in remote'.rules : r.status = "Active")
        /\ (remote.exists /\ remote'.exists /\ remote.network = "Active")
            => (/\ remote'.network = "Active"
                /\ \A r \in remote.rules : r.status = "Active" => r \in remote'.rules
                /\ \A r \in remote'.rules \ remote.rules :
                        r.category = "UserDefined" => r.status = "Active") ]_vars

C9_Witness ==
    /\ remote.exists /\ remote.network = "Active" /\ ~remote.compute
    /\ \E rep \in replies :
            /\ rep.op.kind = "addrule"
            /\ rep.errs = {}
            /\ \E r \in remote.rules :
                    /\ Descriptor(r) = rep.op.rule
                    /\ r.category = "UserDefined"
                    /\ r.status = "Active"

\* C10: run top to bottom, the notebook never meets a validation error or a
\* refusal by the service: the update to AllowOnlyApprovedOutbound succeeds,
\* ServiceTag and FQDN rules exist only under AllowOnlyApprovedOutbound, rule
\* names stay distinct, and once the workspace is deleted nothing more is
\* invoked.
C10_NotebookPasses ==
    [][ /\ lastError' \cap ValidationErrors = {}
        /\ \A rep \in replies' : rep.errs \subseteq RemoteErrors
        /\ (pc'.i > UpdateCell)
            => (config'.mode = AOAO /\ (remote'.exists => remote'.mode = AOAO))
        /\ \A r \in remote'.rules : r.type # "PrivateEndpoint" => remote'.mode = AOAO
        /\ UniqueNames(remote'.rules)
        /\ (pc'.i = Done) => (config'.state = "deleted" /\ ~remote'.exists)
        /\ (config.state = "deleted")
            => (call' = call /\ pending' = pending /\ replies' = replies) ]_vars

C10_Witness ==
    /\ pc.i = Done
    /\ config.state = "deleted"
    /\ ~remote.exists
    /\ lastError = {}

====
